---------------------------- MODULE Spec2Model ----------------------------
(***************************************************************************)
(* A model of model_api/main_api.py: the FastAPI service that predicts an  *)
(* emotion label and a stress level from an uploaded audio file.           *)
(*                                                                         *)
(* State: the three module-level artifacts (model_emotion, model_stress,   *)
(* scaler), the directory temp_audio/ on disk, and, for every worker       *)
(* process serving the application, the position of its predict_audio      *)
(* call and the call's local variables.                                    *)
(*                                                                         *)
(* predict_audio is an `async def` without any `await`: inside one worker  *)
(* process a call runs to completion before the next one starts, so a      *)
(* worker holds at most one call.  Worker processes of the same            *)
(* application (uvicorn main_api:app --workers N, or two servers started   *)
(* from the same directory) share the relative directory temp_audio/, and  *)
(* their system calls interleave.  Every worker imports the module and     *)
(* loads the same three files, so the model keeps one copy of the three    *)
(* globals.                                                                *)
(*                                                                         *)
(* Numbers: librosa's descriptors and the sklearn models are opaque to     *)
(* the source, so they are deterministic integer-valued stand-ins.  The    *)
(* stress score is a float; it is modelled exactly on the dyadic grid of   *)
(* eighths (k/8 is exact in binary floating point), plus NaN.              *)
(***************************************************************************)
EXTENDS Integers, Sequences, FiniteSets, TLC

VARIABLES
    boot,             \* position of the module-level startup code
    disk,             \* content of model/*.joblib on disk
    loads,            \* number of joblib.load calls made per artifact
    model_emotion,    \* module global
    model_stress,     \* module global
    scaler,           \* module global
    temp_dir,         \* whether temp_audio/ exists
    fs,               \* temp_audio/: filename -> bytes (Absent when no file)
    pc,               \* per worker: position inside predict_audio
    upload,           \* per worker: the UploadFile (filename, bytes)
    linked,           \* per worker: the open buffer's inode is still at file_path
    features,         \* per worker: local `features`
    features_scaled,  \* per worker: local `features_scaled`
    outcome,          \* per worker: what the call returns or raises
    calls,            \* per worker: calls made so far by this request
    accepted,         \* number of requests received so far
    responses         \* responses delivered so far: (bytes, outcome)

vars == <<boot, disk, loads, model_emotion, model_stress, scaler, temp_dir, fs,
          pc, upload, linked, features, features_scaled, outcome, calls,
          accepted, responses>>

----------------------------------------------------------------------------
(* Bounds of the model *)

\* requests received in one behaviour of Spec
MaxRequests == 2
\* longest clip, in analysis frames
MaxFrames == 2
\* number of distinct signals per (frames, sample rate)
MaxTone == 2

Workers == {"w1", "w2"}
Filenames == {"a.wav", "b.wav"}
SampleRates == {16000, 44100}
ArtifactNames == {"emotion", "stress", "scaler"}

----------------------------------------------------------------------------
(* Values *)

\* Python None, and a module global that was never assigned
None == [kind |-> "None", n |-> 0, p |-> 0]
Unbound == [kind |-> "unbound", n |-> 0, p |-> 0]
\* a model/*.joblib file that does not exist / that joblib cannot unpickle
Missing == [kind |-> "missing", n |-> 0, p |-> 0]
Corrupt == [kind |-> "corrupt", n |-> 0, p |-> 0]

\* bytes of a file: no file, zero bytes, bytes that are no audio, a wav clip
Absent == [kind |-> "absent", frames |-> 0, sr |-> 0, tone |-> 0]
EmptyBytes == [kind |-> "empty", frames |-> 0, sr |-> 0, tone |-> 0]
Garbage == [kind |-> "garbage", frames |-> 0, sr |-> 0, tone |-> 0]
Wav(n, s, t) == [kind |-> "wav", frames |-> n, sr |-> s, tone |-> t]

NoUpload == [filename |-> "", bytes |-> Absent]

\* a float: NaN, or v/8
NaN == [nan |-> TRUE, v |-> 0]
Float(v) == [nan |-> FALSE, v |-> v]

\* an optional feature vector
NoneVec == [none |-> TRUE, v |-> <<>>]
Vec(v) == [none |-> FALSE, v |-> v]

\* calls made by one request, and exceptions caught inside extract_features
NoCalls == [extract |-> 0, caught |-> 0, transform |-> 0, emotion |-> 0, stress |-> 0]

\* outcome of a call: nothing yet, a JSON body, an HTTPException, or an
\* uncaught exception (answered by the server as status 500)
Pending == [kind |-> "pending", status |-> 0, detail |-> "",
            filename |-> "", predicted_emotion |-> "", predicted_stress_level |-> 0]
HTTPException(status, detail) ==
    [kind |-> "error", status |-> status, detail |-> detail,
     filename |-> "", predicted_emotion |-> "", predicted_stress_level |-> 0]
Uncaught(name) == HTTPException(500, name)
Json(filename, emotion, stress) ==
    [kind |-> "ok", status |-> 200, detail |-> "",
     filename |-> filename, predicted_emotion |-> emotion,
     predicted_stress_level |-> stress]

----------------------------------------------------------------------------
(* extract_features: the five descriptors, time-averaged and concatenated *)

\* rows of each per-frame descriptor matrix
N_MFCC == 40
N_CHROMA == 12
N_MELS == 128
N_CONTRAST == 7
N_TONNETZ == 6

Rows(name) ==
    CASE name = "mfcc" -> N_MFCC
      [] name = "chroma" -> N_CHROMA
      [] name = "mel" -> N_MELS
      [] name = "contrast" -> N_CONTRAST
      [] name = "tonnetz" -> N_TONNETZ

\* stand-in for librosa.feature.<name>(y, sr): the value of row r at frame t,
\* a deterministic function of the signal and its sample rate
Band(name) ==
    CASE name = "mfcc" -> 0
      [] name = "chroma" -> 10
      [] name = "mel" -> 20
      [] name = "contrast" -> 30
      [] name = "tonnetz" -> 40

Descriptor(name, y, r, t) ==
    Band(name) + ((r * y.tone + t * t + (y.sr \div 1000)) % 10)

\* librosa.effects.harmonic(y): the harmonic component of the signal
Harmonic(y) == [y EXCEPT !.tone = y.tone + 1]

RECURSIVE SumFrames(_, _, _, _)
SumFrames(name, y, r, t) ==
    IF t = 0 THEN 0 ELSE Descriptor(name, y, r, t) + SumFrames(name, y, r, t - 1)

\* np.mean(M.T, axis=0): one value per row, the mean over the frames
TimeMean(name, y) ==
    [r \in 1..Rows(name) |-> SumFrames(name, y, r, y.frames) \div y.frames]

\* the same with chroma and mel in each other's place
HstackSwapped(mfcc, chroma, mel, contrast, tonnetz) ==
    mfcc \o mel \o chroma \o contrast \o tonnetz

\* np.hstack([mfcc, chroma, mel, contrast, tonnetz])
Hstack(mfcc, chroma, mel, contrast, tonnetz) ==
    mfcc \o chroma \o mel \o contrast \o tonnetz

\* librosa.load(file_path, sr=None) raises unless the file holds audio
Decodable(bytes) == bytes.kind = "wav" /\ bytes.frames >= 1

\* an extractor that answers a zero vector where extract_features answers None
extract_features_default(bytes) ==
    IF Decodable(bytes)
    THEN Vec(Hstack(TimeMean("mfcc", bytes), TimeMean("chroma", bytes),
                    TimeMean("mel", bytes), TimeMean("contrast", bytes),
                    TimeMean("tonnetz", Harmonic(bytes))))
    ELSE Vec([i \in 1..(N_MFCC + N_CHROMA + N_MELS + N_CONTRAST + N_TONNETZ) |-> 0])

\* extract_features(file_path): the vector, or None on any exception
extract_features(bytes) ==
    IF Decodable(bytes)
    THEN Vec(Hstack(TimeMean("mfcc", bytes), TimeMean("chroma", bytes),
                    TimeMean("mel", bytes), TimeMean("contrast", bytes),
                    TimeMean("tonnetz", Harmonic(bytes))))
    ELSE NoneVec

----------------------------------------------------------------------------
(* The artifacts: scaler.transform, model_emotion.predict, model_stress.predict *)

\* a fitted StandardScaler over n features: (x - mean) / scale per dimension
Scaler(n, mean) == [kind |-> "scaler", n |-> n, p |-> mean]
EmotionModel(bias) == [kind |-> "emotion", n |-> 0, p |-> bias]
StressModel(bias) == [kind |-> "stress", n |-> 0, p |-> bias]

ScaleOf(i) == 1 + (i % 2)

\* scaler.transform([features]) raises ValueError on another number of features
TransformRaises(sc, x) == sc.kind # "scaler" \/ Len(x) # sc.n

Transform(sc, x) == [i \in 1..Len(x) |-> (x[i] - sc.p) \div ScaleOf(i)]

RECURSIVE SumRange(_, _, _)
SumRange(x, lo, hi) ==
    IF lo > hi THEN 0
    ELSE IF lo = hi THEN x[lo]
    ELSE LET mid == (lo + hi) \div 2
         IN  SumRange(x, lo, mid) + SumRange(x, mid + 1, hi)

\* the digest of the input the stand-in models decide on
SumSeq(x) == SumRange(x, 1, Len(x))

\* class indices the classifier may answer: the five labels and two others
NumClassOutputs == 7

\* model_emotion.predict(features_scaled)[0]
EmotionPredict(m, x) == ((SumSeq(x) + m.p) % NumClassOutputs) - 1

\* raw outputs of the regressor, in eighths: -50, 0, 0.875, 1, 1.125, 5.5,
\* 6.25, 6.75, 9.875, 10, 10.125, 15, 1000, and NaN
RawTable ==
    << Float(-400), Float(0), Float(7), Float(8), Float(9), Float(44),
       Float(50), Float(54), Float(79), Float(80), Float(81), Float(120),
       Float(8000), NaN >>

\* model_stress.predict(features_scaled)[0]
StressPredict(m, x) == RawTable[((SumSeq(x) + m.p) % Len(RawTable)) + 1]

----------------------------------------------------------------------------
(* Post-processing: label lookup, clamp, round *)

emotion_labels_display ==
    (0 :> "Sedih") @@ (1 :> "Lelah") @@ (2 :> "Marah") @@ (3 :> "Cemas")
        @@ (4 :> "Netral")

\* d[key]: KeyError when the key is absent
KeyError == "KeyError"
Subscript(d, key, default) == IF key \in DOMAIN d THEN d[key] ELSE KeyError

\* d.get(key, default)
Get(d, key, default) == IF key \in DOMAIN d THEN d[key] ELSE default

\* 1.0 and 10.0, in eighths
StressLo == 8
StressHi == 80

\* Python's a < b on floats: False whenever one side is NaN
Less(a, b) == ~a.nan /\ ~b.nan /\ a.v < b.v

\* min(a, b) and max(a, b): the first argument unless the second is smaller
\* (larger)
PyMin(a, b) == IF Less(b, a) THEN b ELSE a
PyMax(a, b) == IF Less(a, b) THEN b ELSE a

\* min(10.0, x) alone
ClampUpperOnly(x) == PyMin(Float(StressHi), x)

\* max(1.0, min(10.0, float(pred_stress)))
Clamp(x) == PyMax(Float(StressLo), PyMin(Float(StressHi), x))

\* round(x, 1) of x = k/8, as a number of tenths: round half to even
Round1(x) ==
    LET q == (5 * x.v) \div 4
        r == (5 * x.v) % 4
    IN  IF r < 2 THEN q
        ELSE IF r > 2 THEN q + 1
        ELSE IF q % 2 = 0 THEN q ELSE q + 1

----------------------------------------------------------------------------
(* Module-level startup: the try block that loads the three artifacts *)

\* except FileNotFoundError: the three globals become None, the import goes on
ExceptFileNotFound ==
    /\ model_emotion' = None
    /\ model_stress' = None
    /\ scaler' = None
    /\ boot' = "up"

\* any other exception of joblib.load leaves the try block uncaught: the
\* import fails and the server never starts
ImportFails ==
    /\ boot' = "crashed"
    /\ UNCHANGED <<model_emotion, model_stress, scaler>>

LoadEmotion ==
    /\ boot = "load_emotion"
    /\ loads' = [loads EXCEPT !["emotion"] = @ + 1]
    /\ IF disk["emotion"] = Missing THEN ExceptFileNotFound
       ELSE IF disk["emotion"] = Corrupt THEN ImportFails
       ELSE /\ model_emotion' = disk["emotion"]
            /\ boot' = "load_stress"
            /\ UNCHANGED <<model_stress, scaler>>
    /\ UNCHANGED <<disk, temp_dir, fs, pc, upload, linked, features,
                   features_scaled, outcome, calls, accepted, responses>>

LoadStress ==
    /\ boot = "load_stress"
    /\ loads' = [loads EXCEPT !["stress"] = @ + 1]
    /\ IF disk["stress"] = Missing THEN ExceptFileNotFound
       ELSE IF disk["stress"] = Corrupt THEN ImportFails
       ELSE /\ model_stress' = disk["stress"]
            /\ boot' = "load_scaler"
            /\ UNCHANGED <<model_emotion, scaler>>
    /\ UNCHANGED <<disk, temp_dir, fs, pc, upload, linked, features,
                   features_scaled, outcome, calls, accepted, responses>>

LoadScaler ==
    /\ boot = "load_scaler"
    /\ loads' = [loads EXCEPT !["scaler"] = @ + 1]
    /\ IF disk["scaler"] = Missing THEN ExceptFileNotFound
       ELSE IF disk["scaler"] = Corrupt THEN ImportFails
       ELSE /\ scaler' = disk["scaler"]
            /\ boot' = "up"
            /\ UNCHANGED <<model_emotion, model_stress>>
    /\ UNCHANGED <<disk, temp_dir, fs, pc, upload, linked, features,
                   features_scaled, outcome, calls, accepted, responses>>

----------------------------------------------------------------------------
(* predict_audio, one action per step that other workers can observe *)

\* truthiness of a loaded estimator: None is falsy, a fitted estimator truthy
Truthy(a) == a.kind \notin {"None", "unbound"}

\* a handler without the availability check
ModelsAvailableUnchecked == TRUE

\* all([model_emotion, model_stress, scaler])
ModelsAvailable == Truthy(model_emotion) /\ Truthy(model_stress) /\ Truthy(scaler)

\* the request arrives; the availability check; os.makedirs(temp_dir)
Request(w, filename, bytes) ==
    /\ boot = "up"
    /\ pc[w] = "idle"
    /\ accepted < MaxRequests
    /\ accepted' = accepted + 1
    /\ upload' = [upload EXCEPT ![w] = [filename |-> filename, bytes |-> bytes]]
    /\ IF ModelsAvailable
       THEN /\ temp_dir' = TRUE
            /\ pc' = [pc EXCEPT ![w] = "open"]
            /\ UNCHANGED outcome
       ELSE /\ outcome' = [outcome EXCEPT ![w] =
                   HTTPException(500, "Model tidak berhasil dimuat di server.")]
            /\ pc' = [pc EXCEPT ![w] = "done"]
            /\ UNCHANGED temp_dir
    /\ UNCHANGED <<boot, disk, loads, model_emotion, model_stress, scaler, fs,
                   linked, features, features_scaled, calls, responses>>

\* open(file_path, "wb"): creates the file, or truncates the one that is there
OpenTemp(w) ==
    /\ pc[w] = "open"
    /\ fs' = [fs EXCEPT ![upload[w].filename] = EmptyBytes]
    /\ linked' = [linked EXCEPT ![w] = TRUE]
    /\ pc' = [pc EXCEPT ![w] = "copy"]
    /\ UNCHANGED <<boot, disk, loads, model_emotion, model_stress, scaler,
                   temp_dir, upload, features, features_scaled, outcome, calls,
                   accepted, responses>>

\* shutil.copyfileobj(file.file, buffer) and the close of the with block. The
\* bytes go to the inode the buffer was opened on: when another worker has
\* removed the file since, they go to no path (POSIX unlink).
CopyUpload(w) ==
    /\ pc[w] = "copy"
    /\ fs' = IF linked[w]
             THEN [fs EXCEPT ![upload[w].filename] = upload[w].bytes]
             ELSE fs
    /\ linked' = [linked EXCEPT ![w] = FALSE]
    /\ pc' = [pc EXCEPT ![w] = "extract"]
    /\ UNCHANGED <<boot, disk, loads, model_emotion, model_stress, scaler,
                   temp_dir, upload, features, features_scaled, outcome, calls,
                   accepted, responses>>

\* features = extract_features(file_path); if features is None: raise 400
Extract(w) ==
    /\ pc[w] = "extract"
    /\ LET f == extract_features(fs[upload[w].filename])
       IN  /\ features' = [features EXCEPT ![w] = f]
           /\ IF f.none
              THEN /\ outcome' = [outcome EXCEPT ![w] =
                          HTTPException(400, "Tidak dapat memproses file audio.")]
                   /\ pc' = [pc EXCEPT ![w] = "finally"]
              ELSE /\ pc' = [pc EXCEPT ![w] = "scale"]
                   /\ UNCHANGED outcome
    /\ calls' = [calls EXCEPT
                    ![w].extract = @ + 1,
                    ![w].caught = IF Decodable(fs[upload[w].filename]) THEN @ ELSE @ + 1]
    /\ UNCHANGED <<boot, disk, loads, model_emotion, model_stress, scaler,
                   temp_dir, fs, upload, linked, features_scaled, accepted,
                   responses>>

\* a handler that ends the process on a failing transform
ScaleFailureExits(w) == boot' = "crashed" /\ UNCHANGED scaler

\* the ValueError of scaler.transform leaves predict_audio uncaught: the
\* server answers this call with status 500 and the process goes on
ScaleFailure(w) == UNCHANGED <<boot, scaler>>

\* scaler.fit_transform refits the scaler on the request's vector
ScalerAfterFitTransform(sc, x) == Scaler(Len(x), x[1])

\* scaler.transform reads the fitted parameters and leaves them as they are
ScalerAfterTransform(sc, x) == sc

\* features_scaled = scaler.transform([features])
Scale(w) ==
    /\ pc[w] = "scale"
    /\ calls' = [calls EXCEPT ![w].transform = @ + 1]
    /\ IF TransformRaises(scaler, features[w].v)
       THEN /\ outcome' = [outcome EXCEPT ![w] = Uncaught("ValueError")]
            /\ pc' = [pc EXCEPT ![w] = "finally"]
            /\ ScaleFailure(w)
            /\ UNCHANGED features_scaled
       ELSE /\ features_scaled' = [features_scaled EXCEPT ![w] =
                                      Vec(Transform(scaler, features[w].v))]
            /\ scaler' = ScalerAfterTransform(scaler, features[w].v)
            /\ pc' = [pc EXCEPT ![w] = "predict"]
            /\ UNCHANGED <<boot, outcome>>
    /\ UNCHANGED <<disk, loads, model_emotion, model_stress, temp_dir, fs,
                   upload, linked, features, accepted, responses>>

\* the two predictions, the label lookup, the clamp, and the returned JSON
Predict(w) ==
    /\ pc[w] = "predict"
    /\ LET pred_emotion_idx == EmotionPredict(model_emotion, features_scaled[w].v)
           pred_emotion == Get(emotion_labels_display, pred_emotion_idx,
                               "Tidak Diketahui")
           pred_stress == StressPredict(model_stress, features_scaled[w].v)
           pred_stress_clamped == Clamp(pred_stress)
       IN  outcome' = [outcome EXCEPT ![w] =
               Json(upload[w].filename, pred_emotion, Round1(pred_stress_clamped))]
    /\ calls' = [calls EXCEPT ![w].emotion = @ + 1, ![w].stress = @ + 1]
    /\ pc' = [pc EXCEPT ![w] = "finally"]
    /\ UNCHANGED <<boot, disk, loads, model_emotion, model_stress, scaler,
                   temp_dir, fs, upload, linked, features, features_scaled,
                   accepted, responses>>

\* finally: if os.path.exists(file_path)
FinallyExists(w) ==
    /\ pc[w] = "finally"
    /\ pc' = [pc EXCEPT ![w] =
                 IF fs[upload[w].filename] # Absent THEN "remove" ELSE "done"]
    /\ UNCHANGED <<boot, disk, loads, model_emotion, model_stress, scaler,
                   temp_dir, fs, upload, linked, features, features_scaled,
                   outcome, calls, accepted, responses>>

\* a finally block that leaves the file in place
RemoveSkipped(w) ==
    /\ pc[w] = "remove"
    /\ pc' = [pc EXCEPT ![w] = "done"]
    /\ UNCHANGED <<boot, disk, loads, model_emotion, model_stress, scaler,
                   temp_dir, fs, upload, linked, features, features_scaled,
                   outcome, calls, accepted, responses>>

\* os.remove(file_path): FileNotFoundError when another worker removed the
\* file after the exists check; raised inside finally, it replaces the
\* call's result. Buffers other workers hold open on the file are unlinked.
Remove(w) ==
    /\ pc[w] = "remove"
    /\ IF fs[upload[w].filename] # Absent
       THEN /\ fs' = [fs EXCEPT ![upload[w].filename] = Absent]
            /\ linked' = [x \in Workers |->
                             IF upload[x].filename = upload[w].filename
                             THEN FALSE ELSE linked[x]]
            /\ UNCHANGED outcome
       ELSE /\ outcome' = [outcome EXCEPT ![w] = Uncaught("FileNotFoundError")]
            /\ UNCHANGED <<fs, linked>>
    /\ pc' = [pc EXCEPT ![w] = "done"]
    /\ UNCHANGED <<boot, disk, loads, model_emotion, model_stress, scaler,
                   temp_dir, upload, features, features_scaled, calls,
                   accepted, responses>>

\* the server sends the response; the call's locals are gone
Respond(w) ==
    /\ pc[w] = "done"
    /\ responses' = responses \cup
           {[bytes |-> upload[w].bytes, outcome |-> outcome[w]]}
    /\ pc' = [pc EXCEPT ![w] = "idle"]
    /\ upload' = [upload EXCEPT ![w] = NoUpload]
    /\ features' = [features EXCEPT ![w] = NoneVec]
    /\ features_scaled' = [features_scaled EXCEPT ![w] = NoneVec]
    /\ outcome' = [outcome EXCEPT ![w] = Pending]
    /\ calls' = [calls EXCEPT ![w] = NoCalls]
    /\ UNCHANGED <<boot, disk, loads, model_emotion, model_stress, scaler,
                   temp_dir, fs, linked, accepted>>

----------------------------------------------------------------------------
(* Specifications *)

\* the uploads clients send in Spec
Uploads == {EmptyBytes, Garbage, Wav(1, 16000, 1), Wav(MaxFrames, 44100, MaxTone)}

\* every upload of the bounded universe
AllUploads ==
    {EmptyBytes, Garbage} \cup
    {Wav(n, s, t) : n \in 1..MaxFrames, s \in SampleRates, t \in 1..MaxTone}

FeatureCount == N_MFCC + N_CHROMA + N_MELS + N_CONTRAST + N_TONNETZ

Scalers == {Scaler(FeatureCount, 3), Scaler(FeatureCount - 1, 3)}

InitState ==
    /\ boot = "load_emotion"
    /\ loads = [a \in ArtifactNames |-> 0]
    /\ model_emotion = Unbound
    /\ model_stress = Unbound
    /\ scaler = Unbound
    /\ temp_dir = FALSE
    /\ fs = [f \in Filenames |-> Absent]
    /\ pc = [w \in Workers |-> "idle"]
    /\ upload = [w \in Workers |-> NoUpload]
    /\ linked = [w \in Workers |-> FALSE]
    /\ features = [w \in Workers |-> NoneVec]
    /\ features_scaled = [w \in Workers |-> NoneVec]
    /\ outcome = [w \in Workers |-> Pending]
    /\ calls = [w \in Workers |-> NoCalls]
    /\ accepted = 0
    /\ responses = {}

\* the service with its worker processes, one set of artifact files
Init ==
    /\ InitState
    /\ disk \in [emotion : {Missing, Corrupt, EmotionModel(2)},
                 stress : {Missing, Corrupt, StressModel(5)},
                 scaler : {Missing, Corrupt} \cup Scalers]

Next ==
    \/ LoadEmotion
    \/ LoadStress
    \/ LoadScaler
    \/ \E w \in Workers, f \in Filenames, b \in Uploads : Request(w, f, b)
    \/ \E w \in Workers : OpenTemp(w)
    \/ \E w \in Workers : CopyUpload(w)
    \/ \E w \in Workers : Extract(w)
    \/ \E w \in Workers : Scale(w)
    \/ \E w \in Workers : Predict(w)
    \/ \E w \in Workers : FinallyExists(w)
    \/ \E w \in Workers : Remove(w)
    \/ \E w \in Workers : Respond(w)

Spec == Init /\ [][Next]_vars

\* one request served alone, over every upload and every artifact
InitSolo ==
    /\ InitState
    /\ disk \in [emotion : {Missing, Corrupt} \cup
                           {EmotionModel(b) : b \in 0..(NumClassOutputs - 1)},
                 stress : {Missing, Corrupt} \cup
                          {StressModel(b) : b \in 0..(Len(RawTable) - 1)},
                 scaler : {Missing, Corrupt} \cup Scalers]

NextSolo ==
    \/ LoadEmotion
    \/ LoadStress
    \/ LoadScaler
    \/ \E b \in AllUploads : accepted = 0 /\ Request("w1", "a.wav", b)
    \/ OpenTemp("w1")
    \/ CopyUpload("w1")
    \/ Extract("w1")
    \/ Scale("w1")
    \/ Predict("w1")
    \/ FinallyExists("w1")
    \/ Remove("w1")
    \/ Respond("w1")

SpecSolo == InitSolo /\ [][NextSolo]_vars

----------------------------------------------------------------------------
(* Properties *)

InFinally == {"finally", "remove", "done"}

\* the raw regressor output of the call worker w has predicted for
RawOf(w) == StressPredict(model_stress, features_scaled[w].v)

\* the class index of the call worker w has predicted for
IndexOf(w) == EmotionPredict(model_emotion, features_scaled[w].v)

Abs(i) == IF i < 0 THEN -i ELSE i

\* C1: whatever the regressor answers, the returned predicted_stress_level
\* lies in [1.0, 10.0] (10..100 tenths): a raw value below 1.0 gives 1.0, one
\* above 10.0 gives 10.0, one inside gives the tenth nearest to it.
C1_StressClamped ==
    \A w \in Workers :
        outcome[w].kind = "ok" =>
            LET raw == RawOf(w)
                level == outcome[w].predicted_stress_level
            IN  /\ level \in 10..100
                /\ (~raw.nan /\ raw.v < 8) => level = 10
                /\ (~raw.nan /\ raw.v > 80) => level = 100
                /\ (~raw.nan /\ raw.v >= 8 /\ raw.v <= 80) =>
                       Abs(5 * raw.v - 4 * level) <= 2

C1_Witness ==
    \E w \in Workers :
        /\ outcome[w].kind = "ok"
        /\ RawOf(w) = Float(-400)
        /\ outcome[w].predicted_stress_level = 10

\* C2: a call in which decoding or feature extraction raised (the exception
\* extract_features catches) ends with an error and no prediction;
\* extract_features ran once, and neither the scaler nor a model was called.
C2_ExtractionFailureIsExplicit ==
    \A w \in Workers :
        calls[w].caught >= 1 =>
            /\ pc[w] \in InFinally
            /\ features[w].none
            /\ \/ outcome[w] = HTTPException(400, "Tidak dapat memproses file audio.")
               \/ pc[w] = "done" /\ outcome[w] = Uncaught("FileNotFoundError")
            /\ outcome[w].predicted_emotion = ""
            /\ calls[w] = [NoCalls EXCEPT !.extract = 1, !.caught = 1]
            /\ features_scaled[w].none

C2_Witness ==
    \E w \in Workers :
        /\ upload[w].bytes = EmptyBytes
        /\ pc[w] = "done"
        /\ calls[w].caught = 1
        /\ outcome[w].status = 400

LoadFailed == \E a \in ArtifactNames : disk[a] \in {Missing, Corrupt}

Unavailable == HTTPException(500, "Model tidak berhasil dimuat di server.")

\* C3: when an artifact failed to load, every call ends with the error of
\* the availability check before anything else happened: no temporary file
\* or directory, no extraction, no transform, no prediction.
C3_FailFast ==
    LoadFailed =>
        /\ \A w \in Workers :
              /\ pc[w] \in {"idle", "done"}
              /\ pc[w] = "done" => outcome[w] = Unavailable
              /\ calls[w] = NoCalls
        /\ \A f \in Filenames : fs[f] = Absent
        /\ ~temp_dir
        /\ \A r \in responses : r.outcome = Unavailable
        /\ boot # "up" => accepted = 0

C3_Witness ==
    /\ disk["emotion"] \notin {Missing, Corrupt}
    /\ disk["stress"] \notin {Missing, Corrupt}
    /\ disk["scaler"] = Missing
    /\ \E w \in Workers : pc[w] = "done" /\ outcome[w] = Unavailable

SpecLabels ==
    (0 :> "Sad") @@ (1 :> "Tired") @@ (2 :> "Angry") @@ (3 :> "Anxious")
        @@ (4 :> "Neutral")

RunAlone(u) ==
    IF ~ModelsAvailable THEN Unavailable
    ELSE LET f == extract_features(u.bytes)
         IN  IF f.none
             THEN HTTPException(400, "Tidak dapat memproses file audio.")
             ELSE IF TransformRaises(scaler, f.v) THEN Uncaught("ValueError")
             ELSE LET x == Transform(scaler, f.v)
                  IN  Json(u.filename,
                           Get(emotion_labels_display,
                               EmotionPredict(model_emotion, x), "Tidak Diketahui"),
                           Round1(Clamp(StressPredict(model_stress, x))))

\* C5: under any interleaving, the outcome of every call is the outcome the
\* same upload has when it is served alone.
C5_Independent ==
    \A w \in Workers : pc[w] = "done" => outcome[w] = RunAlone(upload[w])

ConfigErrorSeen ==
    \/ \E w \in Workers : outcome[w] = Uncaught("ValueError")
    \/ \E r \in responses : r.outcome = Uncaught("ValueError")

Returned ==
    responses \cup
    {[bytes |-> upload[w].bytes, outcome |-> outcome[w]] : w \in {x \in Workers : pc[x] = "done"}}

\* C8: two calls with the same audio bytes return the same predicted_emotion
\* and predicted_stress_level (or the same error), whatever else ran.
C8_Deterministic ==
    \A r1, r2 \in Returned :
        r1.bytes = r2.bytes =>
            /\ r1.outcome.kind = r2.outcome.kind
            /\ r1.outcome.predicted_emotion = r2.outcome.predicted_emotion
            /\ r1.outcome.predicted_stress_level = r2.outcome.predicted_stress_level

\* C9: a vector extract_features returns has length 193 and is, in this
\* order, the time-averaged MFCC (1..40), chroma (41..52), mel (53..180),
\* contrast (181..187) and tonnetz of the harmonic part (188..193) of the
\* clip it read, for every number of frames and every sample rate.
C9_FeatureLayout ==
    \A w \in Workers :
        ~features[w].none =>
            LET y == upload[w].bytes
                v == features[w].v
            IN  /\ Len(v) = 193
                /\ SubSeq(v, 1, 40) = TimeMean("mfcc", y)
                /\ SubSeq(v, 41, 52) = TimeMean("chroma", y)
                /\ SubSeq(v, 53, 180) = TimeMean("mel", y)
                /\ SubSeq(v, 181, 187) = TimeMean("contrast", y)
                /\ SubSeq(v, 188, 193) = TimeMean("tonnetz", Harmonic(y))
                /\ Len(TimeMean("mfcc", y)) = 40
                /\ Len(TimeMean("tonnetz", Harmonic(y))) = 6

C9_Witness ==
    \E w \in Workers :
        /\ ~features[w].none
        /\ upload[w].bytes.frames = MaxFrames
        /\ upload[w].bytes.sr = 44100
        /\ Len(features[w].v) = 193

\* C10: at the step that ends a call that passed the availability check, the
\* file temp_audio/<filename> does not exist; the step that rejects a call
\* for unavailable models creates no file and no directory.
C10_TempFileRemoved ==
    /\ [][\A w \in Workers :
            (pc[w] \notin {"idle", "done"} /\ pc'[w] = "done") =>
                fs'[upload[w].filename] = Absent]_vars
    /\ [][\A w \in Workers :
            (pc[w] = "idle" /\ pc'[w] = "done") =>
                (fs' = fs /\ temp_dir' = temp_dir /\ ~temp_dir)]_vars

C10_Witness ==
    \E w \in Workers :
        /\ pc[w] = "done"
        /\ outcome[w] = Uncaught("ValueError")
        /\ calls[w].transform = 1
        /\ fs[upload[w].filename] = Absent

=============================================================================
